---- MODULE Spec2Model ----
(***************************************************************************)
(* Dependency-graph builder of src/3stage.py: DependencyGraph.build runs a *)
(* depth-bounded recursive DFS over a dependency source (a fixture file in *)
(* "test" mode, the crates.io API in "real" mode), recording edges, the    *)
(* visited and in-progress sets and the cycles it meets.                   *)
(*                                                                         *)
(* The recursion is modelled with an explicit call stack; every statement  *)
(* of dfs is one action, so the states between any two statements of any   *)
(* dfs call are states of the model.                                       *)
(***************************************************************************)
EXTENDS Integers, Sequences, FiniteSets, TLC

VARIABLES
    mode,           \* self.mode: "test" or "real"
    test_graph,     \* self.test_graph: the loaded fixture (test mode)
    crates_io,      \* the registry behind the crates.io API (real mode)
    max_depth,      \* self.max_depth
    root,           \* the argument of build ("" before build is called)
    graph,          \* self.graph: package -> set of dependency names
    visited,        \* self.visited
    in_progress,    \* self.in_progress
    cycles,         \* self.cycles
    stack,          \* the call stack of dfs frames, innermost last
    status,         \* "init", "running", "returned" or "raised"
    resolve_calls,  \* history: package -> number of get_deps calls
    resolved,       \* history: package -> the list get_deps returned
    pruned,         \* history: packages a dfs call returned on by depth
    reached,        \* history: packages a dfs call got past the depth test
    responses,      \* history: package -> the API responses it was given
    expanded_at     \* history: package -> the depth it was expanded at

vars == <<mode, test_graph, crates_io, max_depth, root, graph, visited,
          in_progress, cycles, stack, status, resolve_calls, resolved,
          pruned, reached, responses, expanded_at>>

(***************************************************************************)
(* Bounds.                                                                 *)
(***************************************************************************)
\* Largest total number of dependency entries of a generated fixture file.
MaxEdges == 3
\* Largest --depth value tried.
MaxDepthBound == 3

\* Names a generated fixture declares and refers to.
GenPackages == {"a", "b", "c"}
\* All package names; "d" is unknown to the generated fixtures.
Packages == GenPackages \cup {"d"}

(***************************************************************************)
(* Fixture files and load_test_repo.                                       *)
(* A line is modelled after strip() and split(':'):                        *)
(*   kind "skip"  - blank line or line starting with '#'                   *)
(*   kind "decl"  - two parts: package and the comma-separated tokens      *)
(*                  (stripped; "" is an empty token)                       *)
(*   kind "bare"  - one part: the package alone                            *)
(*   kind "other" - three or more parts                                    *)
(***************************************************************************)
Line(kind, package, tokens) ==
    [kind |-> kind, package |-> package, tokens |-> tokens]

\* deps = [d.strip() for d in deps_str.split(',') if d.strip()]
DropEmpty(tokens) == SelectSeq(tokens, LAMBDA t : t # "")

\* graph[package] = value on a dict modelled as a function
DictSet(dict, key, value) ==
    [k \in DOMAIN dict \cup {key} |-> IF k = key THEN value ELSE dict[k]]

RECURSIVE LoadLines(_, _)
LoadLines(lines, dict) ==
    IF lines = <<>> THEN dict
    ELSE LET line == Head(lines)
             next == CASE line.kind = "decl" ->
                             DictSet(dict, line.package, DropEmpty(line.tokens))
                       [] line.kind = "bare" ->
                             DictSet(dict, line.package, <<>>)
                       [] OTHER -> dict
         IN  LoadLines(Tail(lines), next)

load_test_repo(file) == LoadLines(file, <<>>)

\* The files tried: every file declaring each of GenPackages once with at
\* most MaxEdges dependency entries in total, and the named files below.
SeqsOfLen(n) == [1..n -> GenPackages]

Sizes == { s \in [GenPackages -> 0..MaxEdges] :
              s["a"] + s["b"] + s["c"] <= MaxEdges }

GenFiles ==
    UNION { { << Line("decl", "a", x), Line("decl", "b", y),
                 Line("decl", "c", z) >> :
                x \in SeqsOfLen(s["a"]), y \in SeqsOfLen(s["b"]),
                z \in SeqsOfLen(s["c"]) } : s \in Sizes }

\* a: b, c / b: d / c: d / d:
DiamondFile ==
    << Line("decl", "a", <<"b", "c">>), Line("decl", "b", <<"d">>),
       Line("decl", "c", <<"d">>), Line("decl", "d", <<>>) >>

\* a: b / b: c / c: a
CycleFile ==
    << Line("decl", "a", <<"b">>), Line("decl", "b", <<"c">>),
       Line("decl", "c", <<"a">>) >>

\* a: a
SelfFile == << Line("decl", "a", <<"a">>) >>

\* a comment, a redeclared package, empty tokens, a bare name, a line with
\* two colons, and a dependency ("d") the file never declares
OddFile ==
    << Line("skip", "", <<>>), Line("decl", "a", <<"c">>),
       Line("decl", "a", <<"b", "", "d", "b">>), Line("bare", "b", <<>>),
       Line("other", "c", <<"a">>), Line("decl", "c", <<"", "">>) >>

NamedFiles == {DiamondFile, CycleFile, SelfFile, OddFile}

Files == GenFiles \cup NamedFiles

(***************************************************************************)
(* The crates.io API.  A registry maps a crate to the dependency records   *)
(* of its latest version; each of the two requests of one lookup gets one  *)
(* of the responses below.                                                 *)
(***************************************************************************)
Dep(crate_id, kind) == [crate_id |-> crate_id, kind |-> kind]

Registries ==
    { [a |-> << Dep("b", "normal"), Dep("c", "dev"), Dep("a", "normal") >>,
       b |-> << Dep("c", "normal") >>,
       c |-> << >>],
      [a |-> << Dep("b", "normal"), Dep("d", "normal") >>,
       b |-> << Dep("a", "normal"), Dep("d", "build") >>] }

Response(kind, code) == [kind |-> kind, code |-> code]

\* "ok": a well-formed answer; "empty": a well-formed answer with no
\* versions; "malformed": JSON lacking an expected key; "bad_json":
\* not JSON; "url_error": network error or timeout; "http_error": HTTPError
ApiResponses ==
    { Response("ok", 200), Response("empty", 200), Response("malformed", 200),
      Response("bad_json", 200), Response("url_error", 0),
      Response("http_error", 404), Response("http_error", 500) }

Return(value) == [raised |-> FALSE, value |-> value]
Raise == [raised |-> TRUE, value |-> <<>>]


\* Handle with the network-error handler raising too
Handle_UrlErrorRaises(r) ==
    IF r.kind = "http_error"
    THEN IF r.code = 404 THEN Return(<<>>) ELSE Raise
    ELSE IF r.kind = "url_error" THEN Raise ELSE Return(<<>>)

\* the handlers of get_dependencies_from_crates_io for a failed request
Handle(r) ==
    IF r.kind = "http_error"
    THEN IF r.code = 404 THEN Return(<<>>) ELSE Raise
    ELSE Return(<<>>)

NormalDeps(recs) ==
    LET normal == SelectSeq(recs, LAMBDA dep : dep.kind = "normal")
    IN  [i \in 1..Len(normal) |-> normal[i].crate_id]

\* v: the response to the versions request, d: to the dependencies request
get_dependencies_from_crates_io(package_name, v, d) ==
    IF v.kind = "empty" THEN Return(<<>>)
    ELSE IF v.kind # "ok" THEN Handle(v)
    ELSE IF d.kind = "empty" THEN Return(<<>>)
    ELSE IF d.kind # "ok" THEN Handle(d)
    ELSE Return(NormalDeps(crates_io[package_name]))

\* self.test_graph.get(package, [])
TestGraphGet(package) ==
    IF package \in DOMAIN test_graph THEN test_graph[package] ELSE <<>>

(***************************************************************************)
(* Construction: DependencyGraph(mode, repo, max_depth).                   *)
(***************************************************************************)
InitState ==
    /\ root = ""
    /\ graph = <<>>
    /\ visited = {}
    /\ in_progress = {}
    /\ cycles = <<>>
    /\ stack = <<>>
    /\ status = "init"
    /\ resolve_calls = [p \in Packages |-> 0]
    /\ resolved = <<>>
    /\ pruned = {}
    /\ reached = {}
    /\ responses = <<>>
    /\ expanded_at = <<>>

Init ==
    /\ mode = "test"
    /\ \E file \in Files : test_graph = load_test_repo(file)
    /\ crates_io = <<>>
    /\ max_depth \in 0..MaxDepthBound
    /\ InitState

InitReal ==
    /\ mode = "real"
    /\ test_graph = <<>>
    /\ crates_io \in Registries
    /\ max_depth \in 0..MaxDepthBound
    /\ InitState

(***************************************************************************)
(* The call stack.                                                         *)
(***************************************************************************)
Frame(package, depth, path) ==
    [package |-> package, depth |-> depth, path |-> path,
     deps |-> <<>>, idx |-> 0, dep |-> "", pc |-> "check_depth"]

Top == stack[Len(stack)]

At(pc) == status = "running" /\ Top.pc = pc

Goto(pc) == stack' = [stack EXCEPT ![Len(stack)].pc = pc]

\* return from the innermost dfs call: to the for loop of the caller, or
\* out of build when the call was the root's
ReturnFromDfs ==
    IF Len(stack) = 1
    THEN /\ stack' = <<>>
         /\ status' = "returned"
    ELSE /\ stack' = [SubSeq(stack, 1, Len(stack) - 1)
                        EXCEPT ![Len(stack) - 1].pc = "for"]
         /\ status' = status

\* path.index(package)
Index(path, package) ==
    CHOOSE i \in 1..Len(path) :
        path[i] = package /\ \A j \in 1..(i - 1) : path[j] # package

InPath(path, package) == \E i \in 1..Len(path) : path[i] = package

(***************************************************************************)
(* build and the statements of dfs.                                        *)
(***************************************************************************)
\* self.dfs(root_package, 0, [])
build ==
    /\ status = "init"
    /\ \E root_package \in Packages :
          /\ root' = root_package
          /\ stack' = << Frame(root_package, 0, <<>>) >>
    /\ status' = "running"
    /\ UNCHANGED <<mode, test_graph, crates_io, max_depth, graph, visited,
                   in_progress, cycles, resolve_calls, resolved, pruned,
                   reached, responses, expanded_at>>


\* dfs_check_depth pruning one level too late
dfs_check_depth_OffByOne ==
    /\ At("check_depth")
    /\ IF Top.depth > max_depth + 1
       THEN /\ ReturnFromDfs
            /\ pruned' = pruned \cup {Top.package}
            /\ reached' = reached
       ELSE /\ Goto("check_in_progress")
            /\ status' = status
            /\ pruned' = pruned
            /\ reached' = reached \cup {Top.package}
    /\ UNCHANGED <<mode, test_graph, crates_io, max_depth, root, graph,
                   visited, in_progress, cycles, resolve_calls, resolved,
                   responses, expanded_at>>

\* dfs_check_depth marking a pruned package visited
dfs_check_depth_MarksVisited ==
    /\ At("check_depth")
    /\ IF Top.depth > max_depth
       THEN /\ ReturnFromDfs
            /\ pruned' = pruned \cup {Top.package}
            /\ reached' = reached
            /\ visited' = IF Top.package \in in_progress
                          THEN visited
                          ELSE visited \cup {Top.package}
       ELSE /\ Goto("check_in_progress")
            /\ status' = status
            /\ pruned' = pruned
            /\ reached' = reached \cup {Top.package}
            /\ visited' = visited
    /\ UNCHANGED <<mode, test_graph, crates_io, max_depth, root, graph,
                   in_progress, cycles, resolve_calls, resolved,
                   responses, expanded_at>>

\* if depth > self.max_depth: return
dfs_check_depth ==
    /\ At("check_depth")
    /\ IF Top.depth > max_depth
       THEN /\ ReturnFromDfs
            /\ pruned' = pruned \cup {Top.package}
            /\ reached' = reached
       ELSE /\ Goto("check_in_progress")
            /\ status' = status
            /\ pruned' = pruned
            /\ reached' = reached \cup {Top.package}
    /\ UNCHANGED <<mode, test_graph, crates_io, max_depth, root, graph,
                   visited, in_progress, cycles, resolve_calls, resolved,
                   responses, expanded_at>>

\* if package in self.in_progress:
dfs_check_in_progress ==
    /\ At("check_in_progress")
    /\ IF Top.package \in in_progress
       THEN Goto("cycle")
       ELSE Goto("check_visited")
    /\ UNCHANGED <<mode, test_graph, crates_io, max_depth, root, graph,
                   visited, in_progress, cycles, status, resolve_calls,
                   resolved, pruned, reached, responses, expanded_at>>


\* dfs_cycle recording the path suffix without closing the loop
dfs_cycle_NotClosed ==
    /\ At("cycle")
    /\ IF InPath(Top.path, Top.package)
       THEN LET cycle_start == Index(Top.path, Top.package)
                cycle == SubSeq(Top.path, cycle_start, Len(Top.path))
            IN  /\ cycles' = Append(cycles, cycle)
                /\ ReturnFromDfs
       ELSE /\ cycles' = cycles
            /\ status' = "raised"
            /\ stack' = stack
    /\ UNCHANGED <<mode, test_graph, crates_io, max_depth, root, graph,
                   visited, in_progress, resolve_calls, resolved, pruned,
                   reached, responses, expanded_at>>

\* dfs_cycle recording the whole path instead of its suffix
dfs_cycle_WholePath ==
    /\ At("cycle")
    /\ IF InPath(Top.path, Top.package)
       THEN LET cycle == Top.path \o << Top.package >>
            IN  /\ cycles' = Append(cycles, cycle)
                /\ ReturnFromDfs
       ELSE /\ cycles' = cycles
            /\ status' = "raised"
            /\ stack' = stack
    /\ UNCHANGED <<mode, test_graph, crates_io, max_depth, root, graph,
                   visited, in_progress, resolve_calls, resolved, pruned,
                   reached, responses, expanded_at>>

\* cycle_start = path.index(package); cycle = path[cycle_start:] + [package]
\* self.cycles.append(cycle); return
\* (path.index raises ValueError when the package is not in path)
dfs_cycle ==
    /\ At("cycle")
    /\ IF InPath(Top.path, Top.package)
       THEN LET cycle_start == Index(Top.path, Top.package)
                cycle == SubSeq(Top.path, cycle_start, Len(Top.path))
                            \o << Top.package >>
            IN  /\ cycles' = Append(cycles, cycle)
                /\ ReturnFromDfs
       ELSE /\ cycles' = cycles
            /\ status' = "raised"
            /\ stack' = stack
    /\ UNCHANGED <<mode, test_graph, crates_io, max_depth, root, graph,
                   visited, in_progress, resolve_calls, resolved, pruned,
                   reached, responses, expanded_at>>


\* dfs_check_visited without the memoization test
dfs_check_visited_NoMemo ==
    /\ At("check_visited")
    /\ Goto("add_in_progress")
    /\ status' = status
    /\ UNCHANGED <<mode, test_graph, crates_io, max_depth, root, graph,
                   visited, in_progress, cycles, resolve_calls, resolved,
                   pruned, reached, responses, expanded_at>>

\* if package in self.visited: return
dfs_check_visited ==
    /\ At("check_visited")
    /\ IF Top.package \in visited
       THEN ReturnFromDfs
       ELSE Goto("add_in_progress") /\ status' = status
    /\ UNCHANGED <<mode, test_graph, crates_io, max_depth, root, graph,
                   visited, in_progress, cycles, resolve_calls, resolved,
                   pruned, reached, responses, expanded_at>>

\* self.in_progress.add(package)
dfs_add_in_progress ==
    /\ At("add_in_progress")
    /\ in_progress' = in_progress \cup {Top.package}
    /\ expanded_at' = DictSet(expanded_at, Top.package, Top.depth)
    /\ Goto("path_append")
    /\ UNCHANGED <<mode, test_graph, crates_io, max_depth, root, graph,
                   visited, cycles, status, resolve_calls, resolved, pruned,
                   reached, responses>>

\* path.append(package)
dfs_path_append ==
    /\ At("path_append")
    /\ stack' = [stack EXCEPT ![Len(stack)].path = Append(@, Top.package),
                              ![Len(stack)].pc = "get_deps"]
    /\ UNCHANGED <<mode, test_graph, crates_io, max_depth, root, graph,
                   visited, in_progress, cycles, status, resolve_calls,
                   resolved, pruned, reached, responses, expanded_at>>

\* the responses the API can give to the two requests for a package: a
\* well-formed non-empty answer only for a crate the registry has
ResponsePairs(package) ==
    { vd \in ApiResponses \X ApiResponses :
         /\ vd[1].kind = "ok" => package \in DOMAIN crates_io
         /\ vd[2].kind = "ok" => package \in DOMAIN crates_io
         /\ vd[1].kind # "ok" => vd[2] = vd[1] }

\* deps = self.get_deps(package)
dfs_get_deps ==
    /\ At("get_deps")
    /\ resolve_calls' = [resolve_calls EXCEPT ![Top.package] = @ + 1]
    /\ IF mode = "test"
       THEN LET deps == TestGraphGet(Top.package)
            IN  /\ stack' = [stack EXCEPT ![Len(stack)].deps = deps,
                                          ![Len(stack)].pc = "init_key"]
                /\ resolved' = DictSet(resolved, Top.package, deps)
                /\ status' = status
                /\ responses' = responses
       ELSE \E vd \in ResponsePairs(Top.package) :
               LET r == get_dependencies_from_crates_io(Top.package,
                                                        vd[1], vd[2])
               IN  /\ responses' = DictSet(responses, Top.package, vd)
                   /\ IF r.raised
                      THEN /\ status' = "raised"
                           /\ stack' = stack
                           /\ resolved' = resolved
                      ELSE /\ stack' = [stack EXCEPT
                                           ![Len(stack)].deps = r.value,
                                           ![Len(stack)].pc = "init_key"]
                           /\ resolved' = DictSet(resolved, Top.package,
                                                  r.value)
                           /\ status' = status
    /\ UNCHANGED <<mode, test_graph, crates_io, max_depth, root, graph,
                   visited, in_progress, cycles, pruned, reached, expanded_at>>

\* if package not in self.graph: self.graph[package] = set()
dfs_init_key ==
    /\ At("init_key")
    /\ graph' = IF Top.package \notin DOMAIN graph
                THEN DictSet(graph, Top.package, {})
                ELSE graph
    /\ Goto("for")
    /\ UNCHANGED <<mode, test_graph, crates_io, max_depth, root, visited,
                   in_progress, cycles, status, resolve_calls, resolved,
                   pruned, reached, responses, expanded_at>>

\* for dep in deps:
dfs_for ==
    /\ At("for")
    /\ IF Top.idx < Len(Top.deps)
       THEN stack' = [stack EXCEPT ![Len(stack)].idx = @ + 1,
                                   ![Len(stack)].dep = Top.deps[Top.idx + 1],
                                   ![Len(stack)].pc = "add_edge"]
       ELSE Goto("path_pop")
    /\ UNCHANGED <<mode, test_graph, crates_io, max_depth, root, graph,
                   visited, in_progress, cycles, status, resolve_calls,
                   resolved, pruned, reached, responses, expanded_at>>


\* dfs_add_edge overwriting the edge set instead of adding to it
dfs_add_edge_Overwrites ==
    /\ At("add_edge")
    /\ graph' = [graph EXCEPT ![Top.package] = {Top.dep}]
    /\ Goto("call")
    /\ UNCHANGED <<mode, test_graph, crates_io, max_depth, root, visited,
                   in_progress, cycles, status, resolve_calls, resolved,
                   pruned, reached, responses, expanded_at>>

\* self.graph[package].add(dep)
dfs_add_edge ==
    /\ At("add_edge")
    /\ graph' = [graph EXCEPT ![Top.package] = @ \cup {Top.dep}]
    /\ Goto("call")
    /\ UNCHANGED <<mode, test_graph, crates_io, max_depth, root, visited,
                   in_progress, cycles, status, resolve_calls, resolved,
                   pruned, reached, responses, expanded_at>>


\* dfs_call passing the depth on unchanged
dfs_call_SameDepth ==
    /\ At("call")
    /\ stack' = Append(stack, Frame(Top.dep, Top.depth, Top.path))
    /\ UNCHANGED <<mode, test_graph, crates_io, max_depth, root, graph,
                   visited, in_progress, cycles, status, resolve_calls,
                   resolved, pruned, reached, responses, expanded_at>>

\* self.dfs(dep, depth + 1, path[:])
dfs_call ==
    /\ At("call")
    /\ stack' = Append(stack, Frame(Top.dep, Top.depth + 1, Top.path))
    /\ UNCHANGED <<mode, test_graph, crates_io, max_depth, root, graph,
                   visited, in_progress, cycles, status, resolve_calls,
                   resolved, pruned, reached, responses, expanded_at>>

\* path.pop()
dfs_path_pop ==
    /\ At("path_pop")
    /\ stack' = [stack EXCEPT
                    ![Len(stack)].path = SubSeq(@, 1, Len(@) - 1),
                    ![Len(stack)].pc = "remove_in_progress"]
    /\ UNCHANGED <<mode, test_graph, crates_io, max_depth, root, graph,
                   visited, in_progress, cycles, status, resolve_calls,
                   resolved, pruned, reached, responses, expanded_at>>


\* dfs_remove_in_progress leaving the package in progress
dfs_remove_in_progress_Kept ==
    /\ At("remove_in_progress")
    /\ in_progress' = in_progress
    /\ Goto("add_visited")
    /\ status' = status
    /\ UNCHANGED <<mode, test_graph, crates_io, max_depth, root, graph,
                   visited, cycles, resolve_calls, resolved, pruned, reached,
                   responses, expanded_at>>

\* self.in_progress.remove(package)   (KeyError when absent)
dfs_remove_in_progress ==
    /\ At("remove_in_progress")
    /\ IF Top.package \in in_progress
       THEN /\ in_progress' = in_progress \ {Top.package}
            /\ Goto("add_visited")
            /\ status' = status
       ELSE /\ in_progress' = in_progress
            /\ stack' = stack
            /\ status' = "raised"
    /\ UNCHANGED <<mode, test_graph, crates_io, max_depth, root, graph,
                   visited, cycles, resolve_calls, resolved, pruned, reached,
                   responses, expanded_at>>

\* self.visited.add(package), and the return at the end of dfs
dfs_add_visited ==
    /\ At("add_visited")
    /\ visited' = visited \cup {Top.package}
    /\ ReturnFromDfs
    /\ UNCHANGED <<mode, test_graph, crates_io, max_depth, root, graph,
                   in_progress, cycles, resolve_calls, resolved, pruned,
                   reached, responses, expanded_at>>

Next ==
    \/ build
    \/ dfs_check_depth
    \/ dfs_check_in_progress
    \/ dfs_cycle
    \/ dfs_check_visited
    \/ dfs_add_in_progress
    \/ dfs_path_append
    \/ dfs_get_deps
    \/ dfs_init_key
    \/ dfs_for
    \/ dfs_add_edge
    \/ dfs_call
    \/ dfs_path_pop
    \/ dfs_remove_in_progress
    \/ dfs_add_visited

\* test mode: the dependency source is a fixture
Spec == Init /\ [][Next]_vars

\* real mode: the dependency source is the crates.io API
SpecReal == InitReal /\ [][Next]_vars

\* the interpreter runs the next statement until build returns or raises
FairSpec == Spec /\ WF_vars(Next)

TypeOK ==
    /\ mode \in {"test", "real"}
    /\ status \in {"init", "running", "returned", "raised"}
    /\ visited \subseteq Packages
    /\ in_progress \subseteq Packages
    /\ DOMAIN graph \subseteq Packages
    /\ (status = "running") => Len(stack) >= 1

(***************************************************************************)
(* Vocabulary of the properties.                                           *)
(***************************************************************************)
Range(seq) == { seq[i] : i \in 1..Len(seq) }

Returned == status = "returned"

\* the edge sets of the graph, empty for a package that is not a key
Edges(p) == IF p \in DOMAIN graph THEN graph[p] ELSE {}

\* the packages of the calls below the innermost one, outermost first
ActivePath == [i \in 1..(Len(stack) - 1) |-> stack[i].package]

\* the fixture's dependency relation and its acyclicity
FixtureDeps(p) == Range(TestGraphGet(p))

RECURSIVE ReachableFrom(_, _)
ReachableFrom(S, n) ==
    IF n = 0 THEN S
    ELSE ReachableFrom(S \cup UNION { FixtureDeps(p) : p \in S }, n - 1)

Acyclic ==
    \A p \in Packages :
        p \notin ReachableFrom(FixtureDeps(p), Cardinality(Packages))

\* frames of calls that got past the visited test
Expanding(f) ==
    f.pc \notin {"check_depth", "check_in_progress", "cycle", "check_visited"}

(***************************************************************************)
(* C1: within one build run get_deps is called at most once per package,   *)
(* and a dfs call on a visited package never gets past the visited test    *)
(* (no resolve, no edge, no recursion), also when it reaches the package   *)
(* at a smaller depth than the one it was expanded at.                     *)
(***************************************************************************)
C1_ResolvedAtMostOnce ==
    /\ \A p \in Packages : resolve_calls[p] <= 1
    /\ \A i \in 1..Len(stack) :
          stack[i].package \in visited => ~Expanding(stack[i])

\* a visited package is reached again at a smaller depth
C1_Witness ==
    /\ At("check_visited")
    /\ Top.package \in visited
    /\ Top.depth < expanded_at[Top.package]
    /\ resolve_calls[Top.package] = 1

(***************************************************************************)
(* C2 as stated: diamond fixture, root a, maxDepth = 1: at return the      *)
(* graph maps a to {b, c} and neither b nor c has a recorded edge.         *)
(***************************************************************************)
DiamondRun(depth) ==
    /\ Returned
    /\ test_graph = load_test_repo(DiamondFile)
    /\ root = "a"
    /\ max_depth = depth

DiamondPruned ==
    /\ "a" \in DOMAIN graph
    /\ graph["a"] = {"b", "c"}
    /\ Edges("b") = {}
    /\ Edges("c") = {}

C2_Original == DiamondRun(1) => DiamondPruned

(***************************************************************************)
(* C2 amended: the same holds with maxDepth = 0 (with maxDepth = 1 the     *)
(* packages b and c, at depth 1, are expanded and b->d, c->d recorded).    *)
(***************************************************************************)
C2_DiamondDepthZero == DiamondRun(0) => DiamondPruned

C2_Witness == DiamondRun(0) /\ Edges("a") = {"b", "c"}

(***************************************************************************)
(* C3 as stated: when the root lists itself as a dependency, build ends    *)
(* with the cycle [pkg, pkg] and the edge pkg->pkg, for every maxDepth>=0. *)
(***************************************************************************)
SelfDependent == root \in FixtureDeps(root)

HasSelfCycle == \E i \in 1..Len(cycles) : cycles[i] = <<root, root>>

C3_Original ==
    (Returned /\ SelfDependent) => (HasSelfCycle /\ root \in Edges(root))

(***************************************************************************)
(* C3 amended: the edge pkg->pkg is recorded for every maxDepth >= 0, the  *)
(* cycle [pkg, pkg] for every maxDepth >= 1; with maxDepth = 0 the cycle   *)
(* list stays empty.                                                       *)
(***************************************************************************)
C3_SelfCycle ==
    (Returned /\ SelfDependent) =>
        /\ root \in Edges(root)
        /\ max_depth >= 1 => HasSelfCycle
        /\ max_depth = 0 => cycles = <<>>

C3_Witness ==
    /\ Returned
    /\ SelfDependent
    /\ max_depth >= 1
    /\ HasSelfCycle
    /\ Cardinality(FixtureDeps(root)) >= 2

(***************************************************************************)
(* C4 as stated: no cycle sequence appears twice in the cycle list, also   *)
(* when a fixture line repeats a name; and the fixture a: b, b: c, c: a    *)
(* with root a and maxDepth >= 3 yields exactly [[a, b, c, a]].            *)
(***************************************************************************)
C4_CycleRecordedOnce ==
    /\ \A i, j \in 1..Len(cycles) : cycles[i] = cycles[j] => i = j
    /\ (/\ Returned
        /\ test_graph = load_test_repo(CycleFile)
        /\ root = "a"
        /\ max_depth >= 3) => cycles = << <<"a", "b", "c", "a">> >>

(***************************************************************************)
(* C5 as stated (real mode): every failure of a lookup - HTTP 404, any     *)
(* other HTTP status, network error or timeout, unparsable response - is   *)
(* answered with an empty list, nothing is raised to dfs, and the package  *)
(* ends as a visited key with an empty edge set.                           *)
(***************************************************************************)
\* the response that decided a lookup: the first one that is not "ok"
Deciding(vd) == IF vd[1].kind = "ok" THEN vd[2] ELSE vd[1]

Failure(r) ==
    r.kind \in {"malformed", "bad_json", "url_error", "http_error"}

Recovered(r) ==
    \/ r.kind \in {"malformed", "bad_json", "url_error"}
    \/ r.kind = "http_error" /\ r.code = 404

TreatedAsNoDeps(p) ==
    /\ p \in DOMAIN resolved
    /\ resolved[p] = <<>>
    /\ Edges(p) = {}
    /\ Returned => (p \in DOMAIN graph /\ p \in visited)

IsGraphCycle(c) ==
    /\ Len(c) >= 2
    /\ c[1] = c[Len(c)]
    /\ \A k \in 1..(Len(c) - 1) : c[k + 1] \in Edges(c[k])

FirstIn(path, x) ==
    CHOOSE i \in 1..Len(path) :
        path[i] = x /\ \A j \in 1..(i - 1) : path[j] # x

C6_CyclesAreReal ==
    /\ [](\A i \in 1..Len(cycles) : IsGraphCycle(cycles[i]))
    /\ [](Acyclic => cycles = <<>>)
    /\ [][cycles' # cycles =>
            /\ Top.package \in Range(ActivePath)
            /\ cycles' = Append(cycles,
                  SubSeq(ActivePath, FirstIn(ActivePath, Top.package),
                         Len(ActivePath)) \o <<Top.package>>)]_vars

\* a cycle that does not start at the root has been recorded
C6_Witness ==
    /\ Returned
    /\ \E i \in 1..Len(cycles) : cycles[i][1] # root /\ Len(cycles[i]) >= 3

(***************************************************************************)
(* C7: graph[p] is always a subset of the names get_deps returned for p    *)
(* and equals that set once p is visited; graph[p] changes only in a step  *)
(* of p's own expansion and never after p is visited; a package expanded   *)
(* with no dependencies is a key with an empty set.                        *)
(***************************************************************************)
C7_EdgesFromOwnExpansion ==
    /\ [](\A p \in DOMAIN graph :
            /\ p \in DOMAIN resolved
            /\ graph[p] \subseteq Range(resolved[p])
            /\ p \in visited => graph[p] = Range(resolved[p]))
    /\ [](\A p \in visited : p \in DOMAIN graph)
    /\ [][\A p \in Packages :
            (p \in DOMAIN graph' /\ (p \notin DOMAIN graph \/ graph'[p] # graph[p]))
               => /\ Top.package = p
                  /\ Expanding(Top)
                  /\ p \notin visited]_vars
    /\ [][DOMAIN graph \subseteq DOMAIN graph']_vars

\* a name unknown to the fixture is a key with an empty set, next to a
\* package with two recorded edges
C7_Witness ==
    /\ Returned
    /\ \E p \in visited : p \notin DOMAIN test_graph /\ graph[p] = {}
    /\ \E p \in visited : Cardinality(graph[p]) = 2

(***************************************************************************)
(* C8: no package is both in progress and visited; a package enters        *)
(* in_progress only when it is in neither set; it enters visited only in   *)
(* the exit statements of its own call, right after the statement that     *)
(* removed it from in_progress; visited never shrinks.                     *)
(***************************************************************************)
C8_DisjointMarks ==
    /\ [](in_progress \cap visited = {})
    /\ [][\A p \in in_progress' \ in_progress :
             p \notin visited /\ p \notin in_progress]_vars
    /\ [][\A p \in in_progress \ in_progress' :
             /\ status' = "running"
             /\ stack'[Len(stack')].pc = "add_visited"
             /\ stack'[Len(stack')].package = p]_vars
    /\ [][\A p \in visited' \ visited :
             /\ Top.pc = "add_visited"
             /\ Top.package = p
             /\ p \notin in_progress']_vars
    /\ [][visited \subseteq visited']_vars

C8_Witness ==
    /\ status = "running"
    /\ visited # {}
    /\ Cardinality(in_progress) >= 2

(***************************************************************************)
(* C9: a dfs call with depth > max_depth changes neither the graph, the    *)
(* visited set, the in-progress set nor the cycle list and does not call   *)
(* get_deps; every package reached at depth <= max_depth is expanded by    *)
(* the time build returns, pruned earlier or not; with max_depth = 0 the   *)
(* root's dependencies are in graph[root] and the root is the only key.    *)
(***************************************************************************)
C9_PruneLeavesState ==
    /\ [][(At("check_depth") /\ Top.depth > max_depth) =>
             UNCHANGED <<graph, visited, in_progress, cycles, resolve_calls,
                         resolved>>]_vars
    /\ [](Returned => reached \subseteq (DOMAIN graph \cap visited))
    /\ []((Returned /\ max_depth = 0) =>
             /\ DOMAIN graph = {root}
             /\ graph[root] = FixtureDeps(root))

\* a package pruned on a deeper path is being expanded
C9_Witness ==
    /\ At("add_in_progress")
    /\ Top.package \in pruned
    /\ Top.package \notin visited \cup in_progress

====
